---- MODULE Spec2Model ----
(***************************************************************************)
(* Spam classifier: the deployed endpoint (src/src/app.py served through   *)
(* wsgi.py), its in-memory rate limiter, the legacy endpoint (src/app.py)  *)
(* and the artifact writer of the training script (src/src/train.py).      *)
(***************************************************************************)
EXTENDS Integers, Sequences, FiniteSets, TLC

VARIABLES
    disk,            \* the file models/model_optimized.pkl
    proc,            \* deployed process: "init", "serving", "exited"
    exitcode,        \* exit status of the deployed process (0 while running)
    model,           \* global `model` of src/src/app.py
    loads,           \* number of assignments made to the global `model`
    request_counts,  \* global dict client_ip -> list of timestamps
    now,             \* time.time(), in whole seconds
    admitted,        \* history: per client, timestamps of the requests passed on to predict
    req,             \* the last /predict request: its client and what it carried
    resp,            \* the answer to the last /predict request
    invoked,         \* history: the callees reached while handling the last request
    caught,          \* history: the exception the last request raised inside predict()
    program,         \* which program runs: "deployed" (src/src/app.py) or "legacy" (src/app.py)
    lfiles,          \* the pickle files the legacy endpoint looks for
    vectorizer,      \* global `vectorizer` of src/app.py
    lmodel,          \* global `model` of src/app.py
    pc,              \* per worker thread: the line of decorated_function it is about to run
    stamp,           \* per worker thread: its local current_time
    newlist,         \* per worker thread: the list its comprehension has built
    trainpc,         \* where the training script src/src/train.py stands
    run,             \* number of the training run, 0 before the first
    metafile,        \* the file models/metadata_v2.json
    csv,             \* the rows of spam.csv: label and text, in file order
    datapc,          \* where step 1 of the training script stands
    df,              \* the frame read from spam.csv, targets mapped
    df_unique,       \* the frame after drop_duplicates
    X_train,         \* the rows train_test_split put in the training part
    X_test,          \* the rows train_test_split put in the test part
    entropy,         \* what an unseeded generator would be seeded with in this run
    first_split,     \* history: the partition the previous run of the script made
    cm,              \* confusion matrix of an evaluation: tn, fp, fn, tp
    rates,           \* the rates an evaluation script derived from cm
    y_test,          \* the scored test set of the threshold sweep: label and p_spam
    sweep,           \* the rows of the threshold sweep computed so far
    xpc,             \* where export_model stands
    xret,            \* what the last call of export_model returned
    xbefore,         \* history: the files as they were when export_model was called
    exports,         \* number of calls of export_model so far
    optpc,           \* train_optimized.py: the line it stands at, "done" or "failed"
    model_v2,        \* the file models/model_v2.pkl
    bound,           \* names the comparison section of train_optimized.py has bound
    printed,         \* sections train_optimized.py has printed
    optexc           \* the exception that ended train_optimized.py, if any

deployedVars == <<disk, model, loads, request_counts, now, admitted>>
legacyVars == <<lfiles, vectorizer, lmodel>>
threadVars == <<pc, stamp, newlist>>
trainVars == <<trainpc, run, metafile>>
dataVars == <<csv, datapc, df, df_unique, X_train, X_test, entropy, first_split>>
evalVars == <<cm, rates, y_test, sweep>>
exportVars == <<xpc, xret, xbefore, exports>>
optVars == <<optpc, model_v2, bound, printed, optexc>>
batchVars == <<dataVars, evalVars, exportVars, optVars>>
vars == <<disk, proc, exitcode, model, loads, request_counts, now, admitted, req, resp,
          invoked, caught, program, lfiles, vectorizer, lmodel, pc, stamp, newlist,
          trainpc, run, metafile, csv, datapc, df, df_unique, X_train, X_test, entropy,
          first_split, cm, rates, y_test, sweep, xpc, xret, xbefore, exports,
          optpc, model_v2, bound, printed, optexc>>

-----------------------------------------------------------------------------
(* Bounds of the model *)
MaxTime == 90            \* the clock stops advancing here
MaxNeighbour == 1        \* requests of the second client that pass the limiter
TickStep == 30           \* seconds between two observable clock values
MaxRuns == 2             \* training runs whose artifacts may be on disk
ArtifactChunks == 2      \* buffered writes needed to persist one pipeline
MaxAdmitted == 17        \* worker threads stop taking requests after this many got through
MaxRows == 5             \* rows of spam.csv
MaxCount == 3            \* largest entry of a confusion matrix
MaxTest == 3             \* messages in the scored test set of the threshold sweep
MaxExports == 2          \* calls of export_model

(* Program constants *)
RATE_LIMIT_REQUESTS == 15
RATE_LIMIT_PERIOD == 60
MAX_MESSAGE_LENGTH == 5000
RANDOM_STATE == 42       \* random_state of train_test_split
TestPercent == 30        \* test_size = 0.3
NaN == -1                \* the float NaN: not a class label, equal to no number
ProbUnits == 10000       \* probabilities are counted in 1/10000

Clients == {"10.0.0.1"}
\* another remote address, sending a few requests of its own
Neighbours == {"10.0.0.2"}
Threads == {"worker-1", "worker-2"}     \* threads of the WSGI server
None == [none |-> TRUE]

-----------------------------------------------------------------------------
(* Files and unpickling *)

NoFile == [exists |-> FALSE]
FileOf(r, n) == [exists |-> TRUE, run |-> r, bytes |-> n]
Files == {NoFile} \cup {FileOf(r, n) : r \in 1..MaxRuns, n \in 0..ArtifactChunks}
Complete(f) == f.exists /\ f.bytes = ArtifactChunks

\* open(path, 'rb') followed by pickle.load(f)
PickleLoad(f) ==
    IF ~f.exists THEN [raised |-> TRUE, exc |-> "FileNotFoundError"]
    ELSE IF f.bytes < ArtifactChunks THEN [raised |-> TRUE, exc |-> "UnpicklingError"]
    ELSE [raised |-> FALSE, value |-> [pipeline |-> f.run]]

-----------------------------------------------------------------------------
(* Requests *)

\* A submitted text: `lead` whitespace characters, then `core` characters that
\* start and end with a non-whitespace character, then `trail` whitespace.
Msg(l, c, t) == [lead |-> l, core |-> c, trail |-> t]
MsgLen(m) == m.lead + m.core + m.trail
\* variant: the message is used as submitted
Strip_Missing(m) == m
Strip(m) == Msg(0, m.core, 0)                      \* str.strip()

CoreLengths == {0, 1, MAX_MESSAGE_LENGTH - 1, MAX_MESSAGE_LENGTH, MAX_MESSAGE_LENGTH + 1}
Messages == {Msg(l, c, t) : l \in {0, 1}, c \in CoreLengths, t \in {0, 1}}

\* What predict_proba does for the request: raise, or return (p_ham, p_spam)
ProbaSamples == {0, 5, 4995, 5000, 5005, ProbUnits}
ProbaOutcomes == {[raised |-> TRUE, exc |-> "X has 10 features, but the model is expecting 3000"]}
                 \cup {[raised |-> FALSE, ham |-> ProbUnits - p, spam |-> p] : p \in ProbaSamples}

\* kind "text": the 'message' field is a string; "missing": no such field;
\* "nonstring": the JSON field is not a string, so .strip() raises
NoReq == [client |-> "none"]

Requests ==
    {[kind |-> "text", msg |-> m, proba |-> o] : m \in Messages, o \in ProbaOutcomes}
    \cup {[kind |-> k, msg |-> Msg(0, 0, 0), proba |-> o] : k \in {"missing", "nonstring"}, o \in ProbaOutcomes}

-----------------------------------------------------------------------------
(* Responses *)

\* `message` is the list of the pieces the text is formatted from
NoResp == [code |-> 0, error |-> FALSE, status |-> "none", message |-> <<>>,
           confidence |-> 0, spam_confidence |-> 0, ham_confidence |-> 0]
\* variant: the body of an error carries its status but not the error flag
ErrorResp_NoFlag(c, text) == [code |-> c, error |-> FALSE, status |-> "error", message |-> text,
                              confidence |-> 0, spam_confidence |-> 0, ham_confidence |-> 0]

\* the body and the HTTP code of an error answer
ErrorResp(c, text) == [code |-> c, error |-> TRUE, status |-> "error", message |-> text,
                       confidence |-> 0, spam_confidence |-> 0, ham_confidence |-> 0]

RateLimitedResp == ErrorResp(429, <<"Too many requests. Please wait a minute and try again.">>)
EmptyResp == ErrorResp(400, <<"Please enter a message to classify.">>)
TooLongResp == ErrorResp(400, <<"Message is too long. Please limit to 5000 characters.">>)
GenericMessage == <<"An unexpected server error occurred. The issue has been logged.">>

Max(a, b) == IF a >= b THEN a ELSE b

\* The percentages 0.05, 49.95 and 99.95 are stored as doubles slightly above
\* the decimal value, 50.05 as one slightly below it
DoubleAbove == {5, 4995, 9995}
DoubleBelow == {5005}

\* round(p * 100, 1) for p = k/ProbUnits, in tenths of a percent: round() goes
\* by the exact value of the double, and to even when that is half-way
Round1(k) ==
    LET q == (k * 1000) \div ProbUnits
        r == (k * 1000) % ProbUnits
    IN  IF 2 * r > ProbUnits THEN q + 1
        ELSE IF 2 * r < ProbUnits THEN q
        ELSE IF k \in DoubleAbove THEN q + 1
        ELSE IF k \in DoubleBelow THEN q
        ELSE IF q % 2 = 1 THEN q + 1 ELSE q

NoExc == ""

\* `if not message:`
IsEmpty(message) == MsgLen(message) = 0

\* variant: the cap excludes a message of exactly 5000 characters
TooLong_OffByOne(message) == MsgLen(message) >= MAX_MESSAGE_LENGTH

\* `if len(message) > 5000:`
TooLong(message) == MsgLen(message) > MAX_MESSAGE_LENGTH

\* outcome of a try block: the exception raised or the value returned, and the
\* callees it reached
Raise(e, inv) == [raised |-> TRUE, exc |-> e, invoked |-> inv]
Return(r, inv) == [raised |-> FALSE, resp |-> r, invoked |-> inv]

-----------------------------------------------------------------------------
(* The deployed endpoint: src/src/app.py *)

\* data.get('message', '')
MessageOf(r) == IF r.kind = "text" THEN r.msg ELSE Msg(0, 0, 0)

\* prediction = 1 if confidence[1] > confidence[0] else 0
Prediction(p) == IF p.spam > p.ham THEN 1 ELSE 0

SuccessResp(is_spam, score, p) ==
    [code |-> 200, error |-> FALSE,
     status |-> IF is_spam THEN "spam" ELSE "legitimate",
     message |-> <<"This message is ", IF is_spam THEN "SPAM" ELSE "LEGITIMATE">>,
     confidence |-> Round1(score),
     spam_confidence |-> Round1(p.spam),
     ham_confidence |-> Round1(p.ham)]

\* names bound in predict() when the "Prediction: ..." log line is formatted,
\* and the names that line reads
DeployedLocals == {"data", "message", "confidence", "prediction", "is_spam",
                   "ham_confidence", "spam_confidence"}
LogLineNames == {"is_spam", "confidence_score"}

\* the body of the try block of predict()
PredictTry(mdl, r) ==
    IF r.kind = "nonstring" THEN Raise("'int' object has no attribute 'strip'", {})
    ELSE LET message == Strip(MessageOf(r)) IN
         IF IsEmpty(message) THEN Return(EmptyResp, {})
         ELSE IF TooLong(message) THEN Return(TooLongResp, {})
         ELSE IF mdl = None THEN Raise("Model is not loaded. Please restart the application.", {})
         ELSE IF r.proba.raised THEN Raise(r.proba.exc, {"predict_proba"})
         ELSE IF ~(LogLineNames \subseteq DeployedLocals)
              THEN Raise("name 'confidence_score' is not defined", {"predict_proba"})
         ELSE Return(SuccessResp(Prediction(r.proba) = 1, Max(r.proba.ham, r.proba.spam), r.proba),
                     {"predict_proba"})

\* what Flask's 500 error handler renders when predict() lets an exception out
ErrorPage == [code |-> 500, error |-> FALSE, status |-> "none",
              message |-> <<"500 - An internal server error occurred.">>,
              confidence |-> 0, spam_confidence |-> 0, ham_confidence |-> 0]

\* variant: the except clause names the one exception the author expected
Predict_NarrowExcept(mdl, r) ==
    LET b == PredictTry(mdl, r)
    IN  [resp |-> IF ~b.raised THEN b.resp
                  ELSE IF b.exc = "Model is not loaded. Please restart the application."
                       THEN ErrorResp(500, GenericMessage)
                  ELSE ErrorPage,
         invoked |-> {"predict"} \cup b.invoked,
         caught |-> IF b.raised THEN b.exc ELSE NoExc]

\* predict(): the try block and its `except Exception` clause
Predict(mdl, r) ==
    LET b == PredictTry(mdl, r)
    IN  [resp |-> IF b.raised THEN ErrorResp(500, GenericMessage) ELSE b.resp,
         invoked |-> {"predict"} \cup b.invoked,
         caught |-> IF b.raised THEN b.exc ELSE NoExc]

\* variant: the first request of a client starts the dictionary afresh
Created_Alone(rc, c) == IF c \in DOMAIN rc THEN rc ELSE (c :> <<>>)

\* request_counts after `if client_ip not in request_counts: ... = []`
Created(rc, c) == IF c \in DOMAIN rc THEN rc ELSE rc @@ (c :> <<>>)

\* variant: a timestamp exactly one period old is kept
Pruned_Inclusive(list, current_time) ==
    SelectSeq(list, LAMBDA ts : current_time - ts <= RATE_LIMIT_PERIOD)

\* [ts for ts in request_counts[client_ip] if current_time - ts < RATE_LIMIT_PERIOD]
Pruned(list, current_time) ==
    SelectSeq(list, LAMBDA ts : current_time - ts < RATE_LIMIT_PERIOD)

\* variant: the limit is compared with > instead of >=
Limited_Above(list) == Len(list) > RATE_LIMIT_REQUESTS

\* len(request_counts[client_ip]) >= RATE_LIMIT_REQUESTS
Limited(list) == Len(list) >= RATE_LIMIT_REQUESTS

\* variant: only a missing file is fatal, any other failure is logged
LoadPipeline_Continue(f) ==
    LET l == PickleLoad(f)
    IN  IF l.raised /\ l.exc = "FileNotFoundError" THEN [exited |-> TRUE, status |-> 1]
        ELSE IF l.raised THEN [exited |-> FALSE, model |-> None]
        ELSE [exited |-> FALSE, model |-> l.value]

\* load_pipeline(): the new value of `model`, or the exit status
LoadPipeline(f) ==
    LET l == PickleLoad(f)
    IN  IF l.raised THEN [exited |-> TRUE, status |-> 1]
        ELSE [exited |-> FALSE, model |-> l.value]

\* create_app(), run once by wsgi.py when the server imports it
CreateApp ==
    /\ program = "deployed"
    /\ proc = "init"
    /\ LET l == LoadPipeline(disk) IN
         IF l.exited
         THEN /\ proc' = "exited"
              /\ exitcode' = l.status
              /\ UNCHANGED <<model, loads>>
         ELSE /\ proc' = "serving"
              /\ model' = l.model
              /\ loads' = loads + 1
              /\ UNCHANGED exitcode
    /\ UNCHANGED <<disk, request_counts, now, admitted, req, resp, invoked, caught, program>>
    /\ UNCHANGED legacyVars
    /\ UNCHANGED threadVars
    /\ UNCHANGED trainVars
    /\ UNCHANGED batchVars

\* variant: a request whose handler failed drops the pipeline
Request_ResetOnError(c, r) ==
    /\ program = "deployed"
    /\ proc = "serving"
    /\ req' = [client |-> c, request |-> r]
    /\ LET current_time == now
           list == Pruned(Created(request_counts, c)[c], current_time)
       IN  IF Limited(list)
           THEN /\ request_counts' = [Created(request_counts, c) EXCEPT ![c] = list]
                /\ resp' = RateLimitedResp
                /\ invoked' = {}
                /\ caught' = NoExc
                /\ UNCHANGED <<admitted, model>>
           ELSE /\ request_counts' = [Created(request_counts, c) EXCEPT ![c] = Append(list, current_time)]
                /\ resp' = Predict(model, r).resp
                /\ invoked' = Predict(model, r).invoked
                /\ caught' = Predict(model, r).caught
                /\ admitted' = [admitted EXCEPT ![c] = Append(@, current_time)]
                /\ model' = IF Predict(model, r).caught # NoExc THEN None ELSE model
    /\ UNCHANGED <<disk, proc, exitcode, loads, now, program>>
    /\ UNCHANGED legacyVars
    /\ UNCHANGED threadVars
    /\ UNCHANGED trainVars
    /\ UNCHANGED batchVars

\* one POST /predict handled from start to end: decorated_function, then predict
Request(c, r) ==
    /\ program = "deployed"
    /\ proc = "serving"
    /\ req' = [client |-> c, request |-> r]
    /\ LET current_time == now
           list == Pruned(Created(request_counts, c)[c], current_time)
       IN  IF Limited(list)
           THEN /\ request_counts' = [Created(request_counts, c) EXCEPT ![c] = list]
                /\ resp' = RateLimitedResp
                /\ invoked' = {}
                /\ caught' = NoExc
                /\ UNCHANGED admitted
           ELSE LET answer == Predict(model, r) IN
                /\ request_counts' = [Created(request_counts, c) EXCEPT ![c] = Append(list, current_time)]
                /\ resp' = answer.resp
                /\ invoked' = answer.invoked
                /\ caught' = answer.caught
                /\ admitted' = [admitted EXCEPT ![c] = Append(@, current_time)]
    /\ UNCHANGED <<disk, proc, exitcode, model, loads, now, program>>
    /\ UNCHANGED legacyVars
    /\ UNCHANGED threadVars
    /\ UNCHANGED trainVars
    /\ UNCHANGED batchVars

\* the clock advances between requests
Tick ==
    /\ program = "deployed"
    /\ now + TickStep <= MaxTime
    /\ now' = now + TickStep
    /\ UNCHANGED <<disk, proc, exitcode, model, loads, request_counts, admitted, req, resp, invoked, caught, program>>
    /\ UNCHANGED legacyVars
    /\ UNCHANGED threadVars
    /\ UNCHANGED trainVars
    /\ UNCHANGED batchVars

-----------------------------------------------------------------------------
(* The legacy endpoint: src/app.py *)

\* models/ holds the files of the latest export, the working directory those
\* of the first one ("backward compatibility")
LegacyFiles(export) == {NoFile, FileOf(export, 0), FileOf(export, ArtifactChunks)}
NoLegacyFiles == [models_vectorizer |-> NoFile, models_model |-> NoFile,
                  root_vectorizer |-> NoFile, root_model |-> NoFile]

\* load_model(): the globals it leaves behind, and whether it raised
LoadModel(files) ==
    LET vfile == IF files.models_vectorizer.exists THEN files.models_vectorizer
                 ELSE files.root_vectorizer
        mfile == IF files.models_model.exists THEN files.models_model
                 ELSE files.root_model
        v == PickleLoad(vfile)
        m == PickleLoad(mfile)
    IN  IF v.raised THEN [raised |-> TRUE, vectorizer |-> None, model |-> None]
        ELSE IF m.raised THEN [raised |-> TRUE, vectorizer |-> v.value, model |-> None]
        ELSE [raised |-> FALSE, vectorizer |-> v.value, model |-> m.value]

\* variant: a tie of the two probabilities goes to spam
LegacyClass_TieSpam(p) == IF p.spam >= p.ham THEN 1 ELSE 0

\* model.predict(vect)[0]: the class of the larger probability, ham on a tie
LegacyClass(p) == IF p.spam > p.ham THEN 1 ELSE 0

\* the body of the try block of the legacy predict()
LegacyPredictTry(v, m, r) ==
    IF r.kind = "nonstring" THEN Raise("'int' object has no attribute 'strip'", {})
    ELSE LET message == Strip(MessageOf(r)) IN
         IF IsEmpty(message) THEN Return(EmptyResp, {})
         ELSE IF TooLong(message) THEN Return(TooLongResp, {})
         ELSE IF v = None \/ m = None
              THEN Raise("Models are not loaded. Please restart the application.", {})
         ELSE IF r.proba.raised THEN Raise(r.proba.exc, {"transform", "predict", "predict_proba"})
         ELSE Return(SuccessResp(LegacyClass(r.proba) = 1, Max(r.proba.ham, r.proba.spam), r.proba),
                     {"transform", "predict", "predict_proba"})

\* the legacy predict(): the try block and its `except Exception` clause
LegacyPredict(v, m, r) ==
    LET b == LegacyPredictTry(v, m, r)
    IN  [resp |-> IF b.raised THEN ErrorResp(500, <<"An unexpected error occurred: ", b.exc>>)
                  ELSE b.resp,
         invoked |-> {"predict"} \cup b.invoked,
         caught |-> IF b.raised THEN b.exc ELSE NoExc]

\* python app.py: load_model(), then app.run(); a failed load ends in exit(1)
LegacyMain ==
    /\ program = "legacy"
    /\ proc = "init"
    /\ LET l == LoadModel(lfiles) IN
         /\ vectorizer' = l.vectorizer
         /\ lmodel' = l.model
         /\ IF l.raised
            THEN proc' = "exited" /\ exitcode' = 1
            ELSE proc' = "serving" /\ UNCHANGED exitcode
    /\ UNCHANGED <<req, resp, invoked, caught, program, lfiles>>
    /\ UNCHANGED deployedVars
    /\ UNCHANGED threadVars
    /\ UNCHANGED trainVars
    /\ UNCHANGED batchVars

\* a WSGI server imports `app` from src/app.py: the __main__ block, and with it
\* load_model(), does not run
LegacyImport ==
    /\ program = "legacy"
    /\ proc = "init"
    /\ proc' = "serving"
    /\ UNCHANGED <<exitcode, req, resp, invoked, caught, program>>
    /\ UNCHANGED legacyVars
    /\ UNCHANGED deployedVars
    /\ UNCHANGED threadVars
    /\ UNCHANGED trainVars
    /\ UNCHANGED batchVars

\* one POST /predict of the legacy endpoint
LegacyRequest(r) ==
    /\ program = "legacy"
    /\ proc = "serving"
    /\ req' = [client |-> "any", request |-> r]
    /\ LET answer == LegacyPredict(vectorizer, lmodel, r) IN
         /\ resp' = answer.resp
         /\ invoked' = answer.invoked
         /\ caught' = answer.caught
    /\ UNCHANGED <<proc, exitcode, program>>
    /\ UNCHANGED legacyVars
    /\ UNCHANGED deployedVars
    /\ UNCHANGED threadVars
    /\ UNCHANGED trainVars
    /\ UNCHANGED batchVars

-----------------------------------------------------------------------------
(* Either program, started from any state of its files *)

\* nothing of the training data has been read
NoSplit == [made |-> FALSE]
DataStart ==
    /\ datapc = "start"
    /\ df = <<>>
    /\ df_unique = <<>>
    /\ X_train = <<>>
    /\ X_test = <<>>
    /\ entropy = 0
    /\ first_split = NoSplit
DataIdle == csv = <<>> /\ DataStart

\* no evaluation script has run
NoRates == [script |-> "none"]
EvalIdle ==
    /\ cm = [tn |-> 0, fp |-> 0, fn |-> 0, tp |-> 0]
    /\ rates = NoRates
    /\ y_test = <<>>
    /\ sweep = <<>>

\* export_model has not been called
ExportIdle ==
    /\ xpc = "idle"
    /\ xret = "none"
    /\ xbefore = NoLegacyFiles
    /\ exports = 0

\* train_optimized.py has not run
OptIdle ==
    /\ optpc = "idle"
    /\ model_v2 = NoFile
    /\ bound = {}
    /\ printed = {}
    /\ optexc = NoExc

InitServing ==
    /\ program \in {"deployed", "legacy"}
    /\ IF program = "deployed"
       THEN disk \in Files /\ lfiles = NoLegacyFiles
       ELSE disk = NoFile /\ lfiles \in [models_vectorizer : LegacyFiles(MaxRuns),
                                          models_model : LegacyFiles(MaxRuns),
                                          root_vectorizer : LegacyFiles(1),
                                          root_model : LegacyFiles(1)]
    /\ proc = "init"
    /\ exitcode = 0
    /\ model = None
    /\ loads = 0
    /\ request_counts = [c \in {} |-> <<>>]
    /\ now = 0
    /\ admitted = [c \in Clients \cup Neighbours |-> <<>>]
    /\ req = NoReq
    /\ resp = NoResp
    /\ invoked = {}
    /\ caught = NoExc
    /\ vectorizer = None
    /\ lmodel = None
    /\ pc = [t \in Threads |-> "idle"]
    /\ stamp = [t \in Threads |-> 0]
    /\ newlist = [t \in Threads |-> <<>>]
    /\ trainpc = "idle"
    /\ run = 0
    /\ metafile = NoFile

Init == InitServing /\ DataIdle /\ EvalIdle /\ ExportIdle /\ OptIdle

\* every request of the sample arrives within one second
Next ==
    \/ CreateApp
    \/ \E c \in Clients, r \in Requests : Request(c, r)
    \/ LegacyMain
    \/ LegacyImport
    \/ \E r \in Requests : LegacyRequest(r)

Spec == Init /\ [][Next]_vars

\* Requests that reach each exit of the handler, sent as the clock advances
RateRequests ==
    {[kind |-> "text", msg |-> Msg(0, c, 0), proba |-> [raised |-> FALSE, ham |-> 0, spam |-> ProbUnits]]
        : c \in {0, 1, MAX_MESSAGE_LENGTH + 1}}

InitRate == Init /\ program = "deployed" /\ Complete(disk)

NextRate ==
    \/ CreateApp
    \/ \E c \in Clients, r \in RateRequests : Request(c, r)
    \/ Tick

SpecRate == InitRate /\ [][NextRate]_vars

\* Time passes while the process runs, and a client that keeps sending is
\* served again and again: the clock and each client's requests are fair
SpecRateFair ==
    /\ InitRate /\ [][NextRate]_vars
    /\ WF_vars(Tick)
    /\ \A c \in Clients : WF_vars(\E r \in RateRequests : Request(c, r))

\* Two remote addresses served by one process: the second sends up to
\* MaxNeighbour requests that pass the limiter
NextClients ==
    \/ CreateApp
    \/ \E c \in Clients, r \in RateRequests : Request(c, r)
    \/ \E c \in Neighbours, r \in RateRequests :
          Len(admitted[c]) < MaxNeighbour /\ Request(c, r)
    \/ Tick

SpecClients == InitRate /\ [][NextClients]_vars

-----------------------------------------------------------------------------
(* The deployed endpoint under a multi-threaded server: each worker thread  *)
(* runs decorated_function line by line, and nothing orders the threads.    *)

TheClient == CHOOSE c \in Clients : TRUE

\* lines 85-86: client_ip = request.remote_addr; current_time = time.time()
ReadClock(t) ==
    /\ program = "deployed" /\ proc = "serving"
    /\ pc[t] = "idle"
    /\ Len(admitted[TheClient]) < MaxAdmitted
    /\ stamp' = [stamp EXCEPT ![t] = now]
    /\ pc' = [pc EXCEPT ![t] = "line88"]
    /\ UNCHANGED <<disk, proc, exitcode, model, loads, request_counts, now, admitted,
                   req, resp, invoked, caught, program, newlist>>
    /\ UNCHANGED legacyVars
    /\ UNCHANGED trainVars
    /\ UNCHANGED batchVars

\* line 88: if client_ip not in request_counts
TestAbsent(t) ==
    /\ pc[t] = "line88"
    /\ pc' = [pc EXCEPT ![t] = IF TheClient \in DOMAIN request_counts THEN "line92" ELSE "line89"]
    /\ UNCHANGED <<disk, proc, exitcode, model, loads, request_counts, now, admitted,
                   req, resp, invoked, caught, program, stamp, newlist>>
    /\ UNCHANGED legacyVars
    /\ UNCHANGED trainVars
    /\ UNCHANGED batchVars

\* line 89: request_counts[client_ip] = []
CreateList(t) ==
    /\ pc[t] = "line89"
    /\ request_counts' = (TheClient :> <<>>) @@ request_counts
    /\ pc' = [pc EXCEPT ![t] = "line92"]
    /\ UNCHANGED <<disk, proc, exitcode, model, loads, now, admitted,
                   req, resp, invoked, caught, program, stamp, newlist>>
    /\ UNCHANGED legacyVars
    /\ UNCHANGED trainVars
    /\ UNCHANGED batchVars

\* lines 92-94, right-hand side: the comprehension reads the list
BuildPruned(t) ==
    /\ pc[t] = "line92"
    /\ newlist' = [newlist EXCEPT ![t] = Pruned(request_counts[TheClient], stamp[t])]
    /\ pc' = [pc EXCEPT ![t] = "line92_store"]
    /\ UNCHANGED <<disk, proc, exitcode, model, loads, request_counts, now, admitted,
                   req, resp, invoked, caught, program, stamp>>
    /\ UNCHANGED legacyVars
    /\ UNCHANGED trainVars
    /\ UNCHANGED batchVars

\* lines 92-94, assignment: request_counts[client_ip] = <the new list>
StorePruned(t) ==
    /\ pc[t] = "line92_store"
    /\ request_counts' = [request_counts EXCEPT ![TheClient] = newlist[t]]
    /\ newlist' = [newlist EXCEPT ![t] = <<>>]
    /\ pc' = [pc EXCEPT ![t] = "line96"]
    /\ UNCHANGED <<disk, proc, exitcode, model, loads, now, admitted,
                   req, resp, invoked, caught, program, stamp>>
    /\ UNCHANGED legacyVars
    /\ UNCHANGED trainVars
    /\ UNCHANGED batchVars

\* lines 96-102: the limit test, and the 429 answer when it fails
TestLimit(t, r) ==
    /\ pc[t] = "line96"
    /\ IF Limited(request_counts[TheClient])
       THEN /\ req' = [client |-> TheClient, request |-> r]
            /\ resp' = RateLimitedResp
            /\ invoked' = {}
            /\ caught' = NoExc
            /\ pc' = [pc EXCEPT ![t] = "idle"]
       ELSE /\ pc' = [pc EXCEPT ![t] = "line104"]
            /\ UNCHANGED <<req, resp, invoked, caught>>
    /\ UNCHANGED <<disk, proc, exitcode, model, loads, request_counts, now, admitted,
                   program, stamp, newlist>>
    /\ UNCHANGED legacyVars
    /\ UNCHANGED trainVars
    /\ UNCHANGED batchVars

\* line 104: request_counts[client_ip].append(current_time)
AppendStamp(t) ==
    /\ pc[t] = "line104"
    /\ request_counts' = [request_counts EXCEPT ![TheClient] = Append(@, stamp[t])]
    /\ pc' = [pc EXCEPT ![t] = "line105"]
    /\ UNCHANGED <<disk, proc, exitcode, model, loads, now, admitted,
                   req, resp, invoked, caught, program, stamp, newlist>>
    /\ UNCHANGED legacyVars
    /\ UNCHANGED trainVars
    /\ UNCHANGED batchVars

\* line 105: return f(*args, **kwargs), the call of predict()
CallPredict(t, r) ==
    /\ pc[t] = "line105"
    /\ req' = [client |-> TheClient, request |-> r]
    /\ resp' = Predict(model, r).resp
    /\ invoked' = Predict(model, r).invoked
    /\ caught' = Predict(model, r).caught
    /\ admitted' = [admitted EXCEPT ![TheClient] = Append(@, stamp[t])]
    /\ pc' = [pc EXCEPT ![t] = "idle"]
    /\ UNCHANGED <<disk, proc, exitcode, model, loads, request_counts, now,
                   program, stamp, newlist>>
    /\ UNCHANGED legacyVars
    /\ UNCHANGED trainVars
    /\ UNCHANGED batchVars

\* a burst of requests of one client, all within one reading of the clock
NextConc ==
    \/ CreateApp
    \/ \E t \in Threads :
        \/ ReadClock(t)
        \/ TestAbsent(t)
        \/ CreateList(t)
        \/ BuildPruned(t)
        \/ StorePruned(t)
        \/ \E r \in RateRequests : TestLimit(t, r)
        \/ AppendStamp(t)
        \/ \E r \in RateRequests : CallPredict(t, r)

SpecConc == InitRate /\ [][NextConc]_vars

-----------------------------------------------------------------------------
(* The training script src/src/train.py writing its artifacts while a       *)
(* deployed process starts and serves.                                      *)

\* steps 1 to 3: load, fit, calibrate and evaluate, all in memory
TrainFit ==
    /\ trainpc = "idle"
    /\ run < MaxRuns
    /\ run' = run + 1
    /\ trainpc' = "line133"
    /\ UNCHANGED <<disk, metafile>>
    /\ UNCHANGED <<proc, exitcode, model, loads, request_counts, now, admitted,
                   req, resp, invoked, caught, program>>
    /\ UNCHANGED legacyVars
    /\ UNCHANGED threadVars
    /\ UNCHANGED batchVars

\* line 133: open(model_path, 'wb') creates the file or truncates it
OpenModelFile ==
    /\ trainpc = "line133"
    /\ disk' = FileOf(run, 0)
    /\ trainpc' = "line134"
    /\ UNCHANGED <<run, metafile>>
    /\ UNCHANGED <<proc, exitcode, model, loads, request_counts, now, admitted,
                   req, resp, invoked, caught, program>>
    /\ UNCHANGED legacyVars
    /\ UNCHANGED threadVars
    /\ UNCHANGED batchVars

\* line 134: pickle.dump(calib_pipe, f) reaches the file one buffer at a time,
\* the last one when the with block closes it
DumpChunk ==
    /\ trainpc = "line134"
    /\ disk' = FileOf(disk.run, disk.bytes + 1)
    /\ trainpc' = IF disk.bytes + 1 = ArtifactChunks THEN "line161" ELSE "line134"
    /\ UNCHANGED <<run, metafile>>
    /\ UNCHANGED <<proc, exitcode, model, loads, request_counts, now, admitted,
                   req, resp, invoked, caught, program>>
    /\ UNCHANGED legacyVars
    /\ UNCHANGED threadVars
    /\ UNCHANGED batchVars

\* line 161: open(metadata_path, 'w') creates the file or truncates it
OpenMetaFile ==
    /\ trainpc = "line161"
    /\ metafile' = FileOf(run, 0)
    /\ trainpc' = "line162"
    /\ UNCHANGED <<run, disk>>
    /\ UNCHANGED <<proc, exitcode, model, loads, request_counts, now, admitted,
                   req, resp, invoked, caught, program>>
    /\ UNCHANGED legacyVars
    /\ UNCHANGED threadVars
    /\ UNCHANGED batchVars

\* line 162: json.dump(metadata, f, indent=2), and the close of the file
DumpMeta ==
    /\ trainpc = "line162"
    /\ metafile' = FileOf(run, ArtifactChunks)
    /\ trainpc' = "idle"
    /\ UNCHANGED <<run, disk>>
    /\ UNCHANGED <<proc, exitcode, model, loads, request_counts, now, admitted,
                   req, resp, invoked, caught, program>>
    /\ UNCHANGED legacyVars
    /\ UNCHANGED threadVars
    /\ UNCHANGED batchVars

\* the script is killed, or a write raises (nothing in step 4 catches it or
\* cleans up): the run ends where it stands and the files stay as they are
TrainInterrupted ==
    /\ trainpc \in {"line133", "line134", "line161", "line162"}
    /\ trainpc' = "idle"
    /\ UNCHANGED <<run, disk, metafile>>
    /\ UNCHANGED <<proc, exitcode, model, loads, request_counts, now, admitted,
                   req, resp, invoked, caught, program>>
    /\ UNCHANGED legacyVars
    /\ UNCHANGED threadVars
    /\ UNCHANGED batchVars

InitTrain == Init /\ program = "deployed" /\ disk = NoFile

NextTrain ==
    \/ TrainFit
    \/ TrainInterrupted
    \/ OpenModelFile
    \/ DumpChunk
    \/ OpenMetaFile
    \/ DumpMeta
    \/ CreateApp
    \/ \E c \in Clients, r \in RateRequests : Request(c, r)

SpecTrain == InitTrain /\ [][NextTrain]_vars

-----------------------------------------------------------------------------
(* Step 1 of the training script src/src/train.py: read spam.csv, map the   *)
(* labels, drop duplicate messages, split.  The script is run twice on the  *)
(* same file.                                                               *)

Labels == {"ham", "spam", "junk"}          \* "junk": any label other than the two
Texts == {"a", "b", "c", "d"}
CsvRows == {r \in [label : Labels, text : Texts] : r.label = "junk" => r.text = "a"}

RECURSIVE SeqsUpTo(_, _)
SeqsUpTo(S, n) ==
    IF n = 0 THEN {<<>>}
    ELSE LET shorter == SeqsUpTo(S, n - 1)
         IN  shorter \cup {Append(q, x) : q \in {t \in shorter : Len(t) = n - 1}, x \in S}

\* Series.map({'ham': 0, 'spam': 1}): a value that is not a key becomes NaN
TargetOf(label) ==
    IF label = "ham" THEN 0 ELSE IF label = "spam" THEN 1 ELSE NaN

\* lines 35-37: read_csv, rename the columns, map the labels
ReadCsv ==
    /\ datapc = "start"
    /\ df' = [i \in 1..Len(csv) |->
                [row |-> i, target |-> TargetOf(csv[i].label), message |-> csv[i].text]]
    /\ datapc' = "line43"
    /\ UNCHANGED <<csv, df_unique, X_train, X_test, entropy, first_split>>
    /\ UNCHANGED <<evalVars, exportVars>>
    /\ UNCHANGED <<proc, exitcode, req, resp, invoked, caught, program>>
    /\ UNCHANGED deployedVars
    /\ UNCHANGED legacyVars
    /\ UNCHANGED threadVars
    /\ UNCHANGED trainVars
    /\ UNCHANGED optVars

\* variant: keep='last', the row repeats the message of a row below it
Duplicated_KeepLast(frame, i) == \E j \in (i + 1)..Len(frame) : frame[j].message = frame[i].message

\* DataFrame.duplicated(subset=['message']), keep='first': the row repeats the
\* message of a row above it
Duplicated(frame, i) == \E j \in 1..(i - 1) : frame[j].message = frame[i].message

RECURSIVE Kept(_, _)
Kept(frame, n) ==
    IF n = 0 THEN <<>>
    ELSE IF Duplicated(frame, n) THEN Kept(frame, n - 1)
    ELSE Append(Kept(frame, n - 1), frame[n])

\* df.drop_duplicates(subset=['message'])
DropDuplicates(frame) == Kept(frame, Len(frame))

\* line 43
Dedup ==
    /\ datapc = "line43"
    /\ df_unique' = DropDuplicates(df)
    /\ datapc' = "line47"
    /\ UNCHANGED <<csv, df, X_train, X_test, entropy, first_split>>
    /\ UNCHANGED <<evalVars, exportVars>>
    /\ UNCHANGED <<proc, exitcode, req, resp, invoked, caught, program>>
    /\ UNCHANGED deployedVars
    /\ UNCHANGED legacyVars
    /\ UNCHANGED threadVars
    /\ UNCHANGED trainVars
    /\ UNCHANGED optVars

\* the generator behind random_state, a linear congruential one here: the
\* state that follows x, from which the next draw is taken
NextRandom(x) == (75 * x + 74) % 65537

\* the seed of the generator of a run whose system entropy is e
SeedOf(e) == RANDOM_STATE

RECURSIVE Permutation(_, _)
\* rng.permutation(s), the generator in state x
Permutation(s, x) ==
    IF Len(s) = 0 THEN <<>>
    ELSE LET y == NextRandom(x)
             i == (y % Len(s)) + 1
         IN  <<s[i]>> \o Permutation(SubSeq(s, 1, i - 1) \o SubSeq(s, i + 1, Len(s)), y)

ClassRows(frame, c) == SelectSeq(frame, LAMBDA r : r.target = c)

\* train_test_split(messages, targets, test_size=0.3, random_state=seed,
\* stratify=targets): ValueError, or the rows of the two parts.  A NaN in the
\* stratify column is refused.  Each class is permuted and cut at its share of
\* the training part, the shares rounded by largest remainder with ties
\* decided by the generator.
TrainTestSplit(frame, seed) ==
    LET n == Len(frame)
        n_test == (TestPercent * n + 99) \div 100
        n_train == n - n_test
        count == [c \in {NaN, 0, 1} |-> Len(ClassRows(frame, c))]
        classes == {c \in {0, 1} : count[c] > 0}
    IN  IF n = 0 \/ n_train = 0 THEN [raised |-> TRUE]
        ELSE IF count[NaN] > 0 THEN [raised |-> TRUE]
        ELSE IF \E c \in classes : count[c] < 2 THEN [raised |-> TRUE]
        ELSE IF n_train < Cardinality(classes) \/ n_test < Cardinality(classes)
             THEN [raised |-> TRUE]
        ELSE LET order == Permutation(<<0, 1>>, NextRandom(seed))
                 pos == [c \in {0, 1} |-> CHOOSE k \in 1..2 : order[k] = c]
                 floor == [c \in {0, 1} |-> (count[c] * n_train) \div n]
                 rem == [c \in {0, 1} |-> (count[c] * n_train) % n]
                 need == n_train - (floor[0] + floor[1])
                 Better(c, d) == rem[c] > rem[d] \/ (rem[c] = rem[d] /\ pos[c] < pos[d])
                 n_i == [c \in {0, 1} |->
                           floor[c] + IF Cardinality({d \in classes \ {c} : Better(d, c)}) < need
                                         /\ c \in classes
                                      THEN 1 ELSE 0]
                 perm == [c \in {0, 1} |-> Permutation(ClassRows(frame, c), NextRandom(seed + c + 2))]
                 train == SubSeq(perm[0], 1, n_i[0]) \o SubSeq(perm[1], 1, n_i[1])
                 test == SubSeq(perm[0], n_i[0] + 1, count[0])
                         \o SubSeq(perm[1], n_i[1] + 1, count[1])
             IN  [raised |-> FALSE,
                  train |-> Permutation(train, NextRandom(seed + 5)),
                  test |-> Permutation(test, NextRandom(seed + 6))]

\* variant: the frame is split as read, duplicates included
Split_WholeFrame ==
    /\ datapc = "line47"
    /\ LET s == TrainTestSplit(df, SeedOf(entropy)) IN
         IF s.raised
         THEN datapc' = "ValueError" /\ UNCHANGED <<X_train, X_test>>
         ELSE datapc' = "line52" /\ X_train' = s.train /\ X_test' = s.test
    /\ UNCHANGED <<csv, df, df_unique, entropy, first_split>>
    /\ UNCHANGED <<evalVars, exportVars>>
    /\ UNCHANGED <<proc, exitcode, req, resp, invoked, caught, program>>
    /\ UNCHANGED deployedVars
    /\ UNCHANGED legacyVars
    /\ UNCHANGED threadVars
    /\ UNCHANGED trainVars
    /\ UNCHANGED optVars

\* lines 47-50: the split of the deduplicated frame; a ValueError ends the script
Split ==
    /\ datapc = "line47"
    /\ LET s == TrainTestSplit(df_unique, SeedOf(entropy)) IN
         IF s.raised
         THEN datapc' = "ValueError" /\ UNCHANGED <<X_train, X_test>>
         ELSE datapc' = "line52" /\ X_train' = s.train /\ X_test' = s.test
    /\ UNCHANGED <<csv, df, df_unique, entropy, first_split>>
    /\ UNCHANGED <<evalVars, exportVars>>
    /\ UNCHANGED <<proc, exitcode, req, resp, invoked, caught, program>>
    /\ UNCHANGED deployedVars
    /\ UNCHANGED legacyVars
    /\ UNCHANGED threadVars
    /\ UNCHANGED trainVars
    /\ UNCHANGED optVars

\* the script is started again on the same spam.csv, in a new process
Rerun ==
    /\ datapc = "line52"
    /\ ~first_split.made
    /\ first_split' = [made |-> TRUE, train |-> X_train, test |-> X_test]
    /\ entropy' = entropy + 1
    /\ datapc' = "start"
    /\ df' = <<>>
    /\ df_unique' = <<>>
    /\ X_train' = <<>>
    /\ X_test' = <<>>
    /\ UNCHANGED csv
    /\ UNCHANGED <<evalVars, exportVars>>
    /\ UNCHANGED <<proc, exitcode, req, resp, invoked, caught, program>>
    /\ UNCHANGED deployedVars
    /\ UNCHANGED legacyVars
    /\ UNCHANGED threadVars
    /\ UNCHANGED trainVars
    /\ UNCHANGED optVars

InitData ==
    /\ InitServing /\ program = "deployed" /\ disk = NoFile
    /\ csv \in SeqsUpTo(CsvRows, MaxRows)
    /\ DataStart /\ EvalIdle /\ ExportIdle /\ OptIdle

NextData ==
    \/ ReadCsv
    \/ Dedup
    \/ Split
    \/ Rerun

SpecData == InitData /\ [][NextData]_vars

-----------------------------------------------------------------------------
(* The evaluation scripts: the rates src/notebooks/model_evaluation.py and   *)
(* src/notebooks/train_optimized.py derive from a confusion matrix, and the *)
(* threshold sweep of model_evaluation.py.                                  *)

\* the outcome of evaluating a quotient: a number num/den, a float NaN or
\* infinity, or an exception
Frac(a, b) == [kind |-> "value", num |-> a, den |-> b]
Zero == Frac(0, 1)

\* a / b on numpy integers: dividing by zero warns and yields nan or inf
NumpyDivide(a, b) ==
    IF b # 0 THEN Frac(a, b)
    ELSE IF a = 0 THEN [kind |-> "nan"] ELSE [kind |-> "inf"]

\* a / b on Python integers: dividing by zero raises
PythonDivide(a, b) ==
    IF b # 0 THEN Frac(a, b) ELSE [kind |-> "raise", exc |-> "ZeroDivisionError"]

\* a / b if b > 0 else 0
Guarded(a, b) == IF b > 0 THEN NumpyDivide(a, b) ELSE Zero

\* confusion_matrix(y_test, y_pred) has one row and column per label that
\* occurs in y_test or y_pred: `tn, fp, fn, tp = cm.ravel()` finds its four
\* values only when both labels occur
Unpacks(m) == (m.tn + m.fp + m.fn > 0) /\ (m.tp + m.fn + m.fp > 0)

Matrices == [tn : 0..MaxCount, fp : 0..MaxCount, fn : 0..MaxCount, tp : 0..MaxCount]

\* model_evaluation.py lines 74-92
EvaluateModel ==
    /\ rates.script = "predicted"
    /\ rates' = IF ~Unpacks(cm) THEN [script |-> "model_evaluation", raised |-> TRUE]
                ELSE [script |-> "model_evaluation", raised |-> FALSE,
                      of |-> [specificity |-> Guarded(cm.tn, cm.tn + cm.fp),
                              sensitivity |-> Guarded(cm.tp, cm.tp + cm.fn),
                              fp_rate |-> NumpyDivide(cm.fp, cm.fp + cm.tn)]]
    /\ UNCHANGED <<cm, y_test, sweep>>
    /\ UNCHANGED <<dataVars, exportVars>>
    /\ UNCHANGED <<proc, exitcode, req, resp, invoked, caught, program>>
    /\ UNCHANGED deployedVars
    /\ UNCHANGED legacyVars
    /\ UNCHANGED threadVars
    /\ UNCHANGED trainVars
    /\ UNCHANGED optVars

\* train_optimized.py lines 98-107
EvaluateOptimized ==
    /\ rates.script = "predicted"
    /\ rates' = IF ~Unpacks(cm) THEN [script |-> "train_optimized", raised |-> TRUE]
                ELSE [script |-> "train_optimized", raised |-> FALSE,
                      of |-> [precision |-> NumpyDivide(cm.tp, cm.tp + cm.fp),
                              recall |-> NumpyDivide(cm.tp, cm.tp + cm.fn),
                              f1_score |-> NumpyDivide(2 * cm.tp, 2 * cm.tp + cm.fp + cm.fn),
                              fp_rate |-> NumpyDivide(cm.fp, cm.fp + cm.tn)]]
    /\ UNCHANGED <<cm, y_test, sweep>>
    /\ UNCHANGED <<dataVars, exportVars>>
    /\ UNCHANGED <<proc, exitcode, req, resp, invoked, caught, program>>
    /\ UNCHANGED deployedVars
    /\ UNCHANGED legacyVars
    /\ UNCHANGED threadVars
    /\ UNCHANGED trainVars
    /\ UNCHANGED optVars

\* the test set has been predicted: any confusion matrix may have come out
InitMetrics ==
    /\ InitServing /\ program = "deployed" /\ disk = NoFile
    /\ DataIdle /\ ExportIdle /\ OptIdle
    /\ cm \in Matrices
    /\ rates = [script |-> "predicted"]
    /\ y_test = <<>>
    /\ sweep = <<>>

NextMetrics ==
    \/ EvaluateModel
    \/ EvaluateOptimized

SpecMetrics == InitMetrics /\ [][NextMetrics]_vars

\* the scored test set: the label of each message and the p_spam the model
\* gives it, in percent
ScoreSamples == {20, 30, 50, 60, 80, 90}
Scored == [y : {0, 1}, p : ScoreSamples]

\* thresholds_to_test = [0.3, 0.5, 0.7, 0.9], in percent
Thresholds == <<30, 50, 70, 90>>

\* pipe.predict: the class of the larger probability, ham on a tie
DefaultPredictedSpam(q) == 2 * q > 100

\* confusion_matrix(y_test, y_pred) for the default prediction
DefaultConfusion(test) ==
    LET n(y, spam) == Cardinality({i \in DOMAIN test :
                                     test[i].y = y /\ DefaultPredictedSpam(test[i].p) = spam})
    IN  [tn |-> n(0, FALSE), fp |-> n(0, TRUE), fn |-> n(1, FALSE), tp |-> n(1, TRUE)]

\* model_evaluation.py lines 70-75: predict the test set, build the matrix
PredictTestSet ==
    /\ rates.script = "none"
    /\ cm' = DefaultConfusion(y_test)
    /\ rates' = [script |-> "predicted"]
    /\ UNCHANGED <<y_test, sweep>>
    /\ UNCHANGED <<dataVars, exportVars>>
    /\ UNCHANGED <<proc, exitcode, req, resp, invoked, caught, program>>
    /\ UNCHANGED deployedVars
    /\ UNCHANGED legacyVars
    /\ UNCHANGED threadVars
    /\ UNCHANGED trainVars
    /\ UNCHANGED optVars

\* variant: the comparison with the threshold is turned around
PredictedSpam_Below(q, thresh) == q <= thresh

\* (y_pred_proba[:, 1] >= thresh).astype(int)
PredictedSpam(q, thresh) == q >= thresh

\* how many messages of label y the threshold marks as spam
Marked(test, y, thresh) ==
    Cardinality({i \in DOMAIN test : test[i].y = y /\ PredictedSpam(test[i].p, thresh)})
Labelled(test, y) == Cardinality({i \in DOMAIN test : test[i].y = y})

\* variant: the share of false alarms among the messages marked as spam
PrecisionScore_FalseShare(tp, fp) == IF tp + fp = 0 THEN Zero ELSE Frac(fp, tp + fp)

\* precision_score(..., zero_division=0)
PrecisionScore(tp, fp) == IF tp + fp = 0 THEN Zero ELSE Frac(tp, tp + fp)

\* recall_score(..., zero_division=0)
RecallScore(tp, fn) == IF tp + fn = 0 THEN Zero ELSE Frac(tp, tp + fn)

\* f1_score(..., zero_division=0)
F1Score(tp, fp, fn) == IF 2 * tp + fp + fn = 0 THEN Zero ELSE Frac(2 * tp, 2 * tp + fp + fn)

\* one pass of the loop at lines 226-233
SweepRow(test, m, thresh) ==
    LET tp == Marked(test, 1, thresh)
        fp == Marked(test, 0, thresh)
        fn == Labelled(test, 1) - tp
    IN  [thresh |-> thresh, tp |-> tp, fp |-> fp,
         prec |-> PrecisionScore(tp, fp),
         rec |-> RecallScore(tp, fn),
         f1 |-> F1Score(tp, fp, fn),
         fp_rate |-> IF thresh = 50 THEN NumpyDivide(m.fp, m.fp + m.tn)
                     ELSE PythonDivide(fp, Labelled(test, 0))]

\* the loop over thresholds_to_test, one threshold at a time; an exception
\* ends the script
SweepThreshold ==
    /\ rates.script = "model_evaluation"
    /\ ~rates.raised
    /\ Len(sweep) < Len(Thresholds)
    /\ sweep # <<>> => sweep[Len(sweep)].fp_rate.kind # "raise"
    /\ sweep' = Append(sweep, SweepRow(y_test, cm, Thresholds[Len(sweep) + 1]))
    /\ UNCHANGED <<cm, rates, y_test>>
    /\ UNCHANGED <<dataVars, exportVars>>
    /\ UNCHANGED <<proc, exitcode, req, resp, invoked, caught, program>>
    /\ UNCHANGED deployedVars
    /\ UNCHANGED legacyVars
    /\ UNCHANGED threadVars
    /\ UNCHANGED trainVars
    /\ UNCHANGED optVars

InitSweep ==
    /\ InitServing /\ program = "deployed" /\ disk = NoFile
    /\ DataIdle /\ ExportIdle /\ OptIdle
    /\ cm = [tn |-> 0, fp |-> 0, fn |-> 0, tp |-> 0]
    /\ rates = NoRates
    /\ y_test \in SeqsUpTo(Scored, MaxTest)
    /\ sweep = <<>>

NextSweep ==
    \/ PredictTestSet
    \/ EvaluateModel
    \/ SweepThreshold

SpecSweep == InitSweep /\ [][NextSweep]_vars

-----------------------------------------------------------------------------
(* export_model of src/src/export_model.py, called with the default          *)
(* output_dir: it writes vectorizer.pkl and model.pkl into the working      *)
(* directory, where the legacy endpoint looks for them.                     *)

\* what the files of the call in progress hold: the objects of this export
NewExport == MaxRuns + exports

\* export_model(vectorizer, model) is called
ExportCall ==
    /\ xpc = "idle"
    /\ exports < MaxExports
    /\ exports' = exports + 1
    /\ xbefore' = lfiles
    /\ xret' = "none"
    /\ xpc' = "line39"
    /\ UNCHANGED lfiles
    /\ UNCHANGED <<dataVars, evalVars>>
    /\ UNCHANGED <<proc, exitcode, req, resp, invoked, caught, program, vectorizer, lmodel>>
    /\ UNCHANGED deployedVars
    /\ UNCHANGED threadVars
    /\ UNCHANGED trainVars
    /\ UNCHANGED optVars

\* line 39: open(vectorizer_path, 'wb') creates the file or truncates it
ExportOpenVectorizer ==
    /\ xpc = "line39"
    /\ lfiles' = [lfiles EXCEPT !.root_vectorizer = FileOf(NewExport, 0)]
    /\ xpc' = "line40"
    /\ UNCHANGED <<xret, xbefore, exports>>
    /\ UNCHANGED <<dataVars, evalVars>>
    /\ UNCHANGED <<proc, exitcode, req, resp, invoked, caught, program, vectorizer, lmodel>>
    /\ UNCHANGED deployedVars
    /\ UNCHANGED threadVars
    /\ UNCHANGED trainVars
    /\ UNCHANGED optVars

\* line 40: pickle.dump(vectorizer, f), one buffer at a time
ExportDumpVectorizer ==
    /\ xpc = "line40"
    /\ lfiles' = [lfiles EXCEPT !.root_vectorizer = FileOf(@.run, @.bytes + 1)]
    /\ xpc' = IF lfiles.root_vectorizer.bytes + 1 = ArtifactChunks THEN "line45" ELSE "line40"
    /\ UNCHANGED <<xret, xbefore, exports>>
    /\ UNCHANGED <<dataVars, evalVars>>
    /\ UNCHANGED <<proc, exitcode, req, resp, invoked, caught, program, vectorizer, lmodel>>
    /\ UNCHANGED deployedVars
    /\ UNCHANGED threadVars
    /\ UNCHANGED trainVars
    /\ UNCHANGED optVars

\* line 45: open(model_path, 'wb') creates the file or truncates it
ExportOpenModel ==
    /\ xpc = "line45"
    /\ lfiles' = [lfiles EXCEPT !.root_model = FileOf(NewExport, 0)]
    /\ xpc' = "line46"
    /\ UNCHANGED <<xret, xbefore, exports>>
    /\ UNCHANGED <<dataVars, evalVars>>
    /\ UNCHANGED <<proc, exitcode, req, resp, invoked, caught, program, vectorizer, lmodel>>
    /\ UNCHANGED deployedVars
    /\ UNCHANGED threadVars
    /\ UNCHANGED trainVars
    /\ UNCHANGED optVars

\* lines 46-49: pickle.dump(model, f), one buffer at a time, then return True
ExportDumpModel ==
    /\ xpc = "line46"
    /\ lfiles' = [lfiles EXCEPT !.root_model = FileOf(@.run, @.bytes + 1)]
    /\ IF lfiles.root_model.bytes + 1 = ArtifactChunks
       THEN xpc' = "idle" /\ xret' = "True"
       ELSE xpc' = "line46" /\ UNCHANGED xret
    /\ UNCHANGED <<xbefore, exports>>
    /\ UNCHANGED <<dataVars, evalVars>>
    /\ UNCHANGED <<proc, exitcode, req, resp, invoked, caught, program, vectorizer, lmodel>>
    /\ UNCHANGED deployedVars
    /\ UNCHANGED threadVars
    /\ UNCHANGED trainVars
    /\ UNCHANGED optVars

\* lines 50-52: open() or pickle.dump() raises (the directory is not writable,
\* the disk is full, the object cannot be pickled): log it and return False
ExportRaise ==
    /\ xpc \in {"line39", "line40", "line45", "line46"}
    /\ xpc' = "idle"
    /\ xret' = "False"
    /\ UNCHANGED <<lfiles, xbefore, exports>>
    /\ UNCHANGED <<dataVars, evalVars>>
    /\ UNCHANGED <<proc, exitcode, req, resp, invoked, caught, program, vectorizer, lmodel>>
    /\ UNCHANGED deployedVars
    /\ UNCHANGED threadVars
    /\ UNCHANGED trainVars
    /\ UNCHANGED optVars

InitExport ==
    /\ InitServing /\ program = "legacy"
    /\ DataIdle /\ EvalIdle /\ ExportIdle /\ OptIdle

NextExport ==
    \/ ExportCall
    \/ ExportOpenVectorizer
    \/ ExportDumpVectorizer
    \/ ExportOpenModel
    \/ ExportDumpModel
    \/ ExportRaise

SpecExport == InitExport /\ [][NextExport]_vars

-----------------------------------------------------------------------------
(* src/notebooks/train_optimized.py from its step 4 on: it saves the new     *)
(* artifacts, compares the new model with the original one read from        *)
(* models/model.pkl and models/vectorizer.pkl (lfiles.models_model and      *)
(* lfiles.models_vectorizer), then prints feature importances,              *)
(* recommendations and the closing banner.                                  *)

\* what this run writes: a complete file of the newest run
ThisRun == FileOf(MaxRuns, ArtifactChunks)

\* the names bound by the try block of lines 163-199 when it stops at either
\* load, at the transform/predict calls, at the unpacking of
\* cm_original.ravel(), or nowhere
BoundAt(stop) ==
    CASE stop = "model.pkl" -> {}
      [] stop = "vectorizer.pkl" -> {"original_clf"}
      [] stop = "predict" -> {"original_clf", "original_vec"}
      [] stop = "ravel" -> {"original_clf", "original_vec", "accuracy_original", "cm_original"}
      [] stop = "none" -> {"original_clf", "original_vec", "accuracy_original", "cm_original",
                           "tn_o", "fp_o", "fn_o", "tp_o"}

\* lines 117-124: the calibrated pipeline is written to models/model_optimized.pkl
SaveCalibrated ==
    /\ optpc = "line117"
    /\ disk' = ThisRun
    /\ printed' = printed \cup {"Saved: models/model_optimized.pkl"}
    /\ optpc' = "line127"
    /\ UNCHANGED <<model_v2, bound, optexc>>
    /\ UNCHANGED <<model, loads, request_counts, now, admitted>>
    /\ UNCHANGED <<proc, exitcode, req, resp, invoked, caught, program>>
    /\ UNCHANGED <<dataVars, evalVars, exportVars>>
    /\ UNCHANGED legacyVars
    /\ UNCHANGED threadVars
    /\ UNCHANGED trainVars

\* lines 127-129: the uncalibrated pipeline is written to models/model_v2.pkl
SaveUncalibrated ==
    /\ optpc = "line127"
    /\ model_v2' = ThisRun
    /\ printed' = printed \cup {"Saved: models/model_v2.pkl"}
    /\ optpc' = "line132"
    /\ UNCHANGED <<bound, optexc>>
    /\ UNCHANGED <<proc, exitcode, req, resp, invoked, caught, program>>
    /\ UNCHANGED <<dataVars, evalVars, exportVars>>
    /\ UNCHANGED deployedVars
    /\ UNCHANGED legacyVars
    /\ UNCHANGED threadVars
    /\ UNCHANGED trainVars

\* lines 132-152: the metadata is written to models/metadata_v2.json
SaveMetadata ==
    /\ optpc = "line132"
    /\ metafile' = ThisRun
    /\ printed' = printed \cup {"Saved: models/metadata_v2.json"}
    /\ optpc' = "line163"
    /\ UNCHANGED <<model_v2, bound, optexc>>
    /\ UNCHANGED <<disk, model, loads, request_counts, now, admitted, trainpc, run>>
    /\ UNCHANGED <<proc, exitcode, req, resp, invoked, caught, program>>
    /\ UNCHANGED <<dataVars, evalVars, exportVars>>
    /\ UNCHANGED legacyVars
    /\ UNCHANGED threadVars

\* lines 163-201: the comparison, and the note of the except clause
Compare ==
    /\ optpc = "line163"
    /\ \E outcome \in {"predict", "ravel", "none"} :
         LET stop == IF PickleLoad(lfiles.models_model).raised THEN "model.pkl"
                     ELSE IF PickleLoad(lfiles.models_vectorizer).raised THEN "vectorizer.pkl"
                     ELSE outcome
         IN  /\ bound' = BoundAt(stop)
             /\ printed' = printed \cup {IF stop = "none" THEN "comparison"
                                         ELSE "Note: Could not load original model for comparison"}
    /\ optpc' = "line205"
    /\ UNCHANGED <<model_v2, optexc>>
    /\ UNCHANGED <<proc, exitcode, req, resp, invoked, caught, program>>
    /\ UNCHANGED <<dataVars, evalVars, exportVars>>
    /\ UNCHANGED deployedVars
    /\ UNCHANGED legacyVars
    /\ UNCHANGED threadVars
    /\ UNCHANGED trainVars

\* lines 205-224: the top 15 features of the fitted ExtraTreesClassifier
FeatureImportance ==
    /\ optpc = "line205"
    /\ printed' = printed \cup {"features"}
    /\ optpc' = "line229"
    /\ UNCHANGED <<model_v2, bound, optexc>>
    /\ UNCHANGED <<proc, exitcode, req, resp, invoked, caught, program>>
    /\ UNCHANGED <<dataVars, evalVars, exportVars>>
    /\ UNCHANGED deployedVars
    /\ UNCHANGED legacyVars
    /\ UNCHANGED threadVars
    /\ UNCHANGED trainVars

\* the names lines 233-246 read, in the order they read them
ReadByRecommendations == <<"accuracy_original", "tp_o", "fp_o", "accuracy_original">>

\* the names of ReadByRecommendations that are not bound: reading one raises
Unbound(names) ==
    {ReadByRecommendations[i] : i \in DOMAIN ReadByRecommendations} \ names

\* lines 229-255: the recommendations
Recommend ==
    /\ optpc = "line229"
    /\ IF Unbound(bound) # {}
       THEN /\ optexc' = "NameError"
            /\ optpc' = "failed"
            /\ UNCHANGED printed
       ELSE /\ \E accuracy_up, tp_up, fp_down \in BOOLEAN :
                 printed' = printed \cup {"recommendations"}
                     \cup (IF accuracy_up THEN {"Accuracy improved", "Deploy v2"}
                           ELSE {"v1 and v2 have similar performance"})
                     \cup (IF tp_up THEN {"True positives increased"} ELSE {})
                     \cup (IF fp_down THEN {"False positives decreased"} ELSE {})
            /\ optpc' = "line257"
            /\ UNCHANGED optexc
    /\ UNCHANGED <<model_v2, bound>>
    /\ UNCHANGED <<proc, exitcode, req, resp, invoked, caught, program>>
    /\ UNCHANGED <<dataVars, evalVars, exportVars>>
    /\ UNCHANGED deployedVars
    /\ UNCHANGED legacyVars
    /\ UNCHANGED threadVars
    /\ UNCHANGED trainVars

\* lines 257-272: the closing prints
Finish ==
    /\ optpc = "line257"
    /\ printed' = printed \cup {"MODEL v2 READY FOR PRODUCTION"}
    /\ optpc' = "done"
    /\ UNCHANGED <<model_v2, bound, optexc>>
    /\ UNCHANGED <<proc, exitcode, req, resp, invoked, caught, program>>
    /\ UNCHANGED <<dataVars, evalVars, exportVars>>
    /\ UNCHANGED deployedVars
    /\ UNCHANGED legacyVars
    /\ UNCHANGED threadVars
    /\ UNCHANGED trainVars

\* the model is trained and evaluated; models/ may hold the original files,
\* whole or cut short, and artifacts of an earlier run
InitOptimized ==
    /\ InitServing /\ program = "legacy"
    /\ lfiles.root_vectorizer = NoFile /\ lfiles.root_model = NoFile
    /\ DataIdle /\ EvalIdle /\ ExportIdle
    /\ optpc = "line117"
    /\ model_v2 \in {NoFile, FileOf(1, 0), FileOf(1, ArtifactChunks)}
    /\ bound = {}
    /\ printed = {}
    /\ optexc = NoExc

NextOptimized ==
    \/ SaveCalibrated
    \/ SaveUncalibrated
    \/ SaveMetadata
    \/ Compare
    \/ FeatureImportance
    \/ Recommend
    \/ Finish

SpecOptimized == InitOptimized /\ [][NextOptimized]_vars

-----------------------------------------------------------------------------
(* Properties of the request handlers *)

Handled == req # NoReq /\ "predict" \in invoked        \* the request reached predict()
Deployed == program = "deployed"
Legacy == program = "legacy"

\* the request carries a string of `n` characters after trimming
TrimmedLength(r) == r.msg.core
\* the request carries no message, an empty one, or only whitespace
Blank(r) == r.kind = "missing" \/ (r.kind = "text" /\ r.msg.core = 0)

\* C1: in the deployed endpoint, a request that passes the rate limiter with a
\* message of 1..5000 characters after trimming, the pipeline loaded and
\* predict_proba returning normally, is answered 200 with error = false and a
\* status of spam or legitimate, never with the 500 error response.
C1_ValidRequestAnswered200 ==
    (/\ Deployed /\ Handled
     /\ req.request.kind = "text"
     /\ TrimmedLength(req.request) \in 1..MAX_MESSAGE_LENGTH
     /\ model # None
     /\ ~req.request.proba.raised)
    => (resp.code = 200 /\ ~resp.error /\ resp.status \in {"spam", "legitimate"})

Accepted == resp.code # 400

\* C5 as stated: a message of 1..5000 characters as submitted is accepted and
\* one of 5001 characters or more as submitted is rejected as too long.
C5_LengthAsSubmitted ==
    (Handled /\ req.request.kind = "text")
    => (/\ MsgLen(req.request.msg) \in 1..MAX_MESSAGE_LENGTH => Accepted
        /\ MsgLen(req.request.msg) > MAX_MESSAGE_LENGTH => resp = TooLongResp)

\* C5 as amended: the length check counts the characters left after trimming
\* leading and trailing whitespace: 1..5000 of them are accepted, 5001 or more
\* are rejected with the 400 'too long' error.
C5_LengthAfterTrimming ==
    (Handled /\ req.request.kind = "text")
    => (/\ TrimmedLength(req.request) \in 1..MAX_MESSAGE_LENGTH => Accepted
        /\ TrimmedLength(req.request) > MAX_MESSAGE_LENGTH => resp = TooLongResp)

\* 5001 characters were submitted, 5000 are left after trimming, and the
\* request went through
C5_Witness ==
    /\ Handled /\ req.request.kind = "text"
    /\ MsgLen(req.request.msg) = MAX_MESSAGE_LENGTH + 1
    /\ TrimmedLength(req.request) = MAX_MESSAGE_LENGTH
    /\ Accepted

C6_Caught ==
    caught # NoExc
    => (resp.code = 500 /\ resp.error /\ resp.status = "error" /\ proc = "serving")
C6_ProcessKeepsModel ==
    caught' # NoExc
    => (proc' = proc /\ model' = model /\ vectorizer' = vectorizer /\ lmodel' = lmodel)

\* C6: an exception raised inside predict() is answered 500 with error = true
\* and status 'error'; the process keeps serving with the model it had.
C6_ExceptionsBecome500 == []C6_Caught /\ [][C6_ProcessKeepsModel]_vars

\* predict_proba raised in an endpoint whose model is loaded
C6_Witness ==
    /\ Handled /\ req.request.proba.raised /\ caught = req.request.proba.exc
    /\ Legacy /\ lmodel # None /\ resp.code = 500

\* C7: two requests that fail with different exceptions get the same body.
C7_SameBodyForAnyException ==
    [][(caught # NoExc /\ caught' # NoExc /\ caught' # caught) => resp'.message = resp.message]_vars

\* C8: when loading models/model_optimized.pkl fails, the deployed process
\* exits with a non-zero status without having handled a request; a request
\* is only ever handled with a model loaded.
C8_NoServingWithoutModel ==
    Deployed =>
        /\ (~Complete(disk) /\ proc # "init") => (proc = "exited" /\ exitcode # 0 /\ req = NoReq)
        /\ (proc = "serving" \/ req # NoReq) => model # None

\* the file is there but cannot be unpickled
C8_Witness == Deployed /\ disk.exists /\ ~Complete(disk) /\ proc = "exited" /\ exitcode = 1

C9_LoadedOnce == (Deployed /\ proc = "serving") => loads = 1
C9_RequestsOnlyRead == (Deployed /\ proc = "serving") => (model' = model /\ loads' = loads)

C18_ResponseContract ==
    req # NoReq =>
        /\ resp.status \in {"spam", "legitimate", "error"}
        /\ resp.error <=> resp.status = "error"
        /\ resp.status = "error" <=> resp.code # 200

\* the deployed endpoint has turned a request away at the rate limit after
\* answering others
C18_Witness ==
    /\ Deployed /\ req # NoReq
    /\ resp.code = 429 /\ resp.error /\ resp.status = "error"
    /\ Len(admitted[req.client]) = RATE_LIMIT_REQUESTS

Succeeded == req # NoReq /\ resp.code = 200
Tenths == 10 * 100                 \* 100 percent, in tenths of a percent

C19_Ranges ==
    /\ resp.spam_confidence \in 0..Tenths
    /\ resp.ham_confidence \in 0..Tenths
C19_Consistent ==
    /\ resp.confidence = Max(resp.spam_confidence, resp.ham_confidence)
    /\ resp.status = "spam" => resp.spam_confidence >= Tenths \div 2
    /\ resp.status = "legitimate" => resp.ham_confidence >= Tenths \div 2
    /\ req.request.proba.spam = req.request.proba.ham => resp.status = "legitimate"

-----------------------------------------------------------------------------
(* Properties of the rate limiter, requests handled one at a time *)

\* how many timestamps of `log` lie in the window (T - 60, T]
InWindow(log, T) ==
    Cardinality({i \in DOMAIN log : T - RATE_LIMIT_PERIOD < log[i] /\ log[i] <= T})

C2_Window ==
    \A c \in Clients, T \in 0..MaxTime : InWindow(admitted[c], T) <= RATE_LIMIT_REQUESTS
C2_Reject ==
    \A c \in Clients :
        (/\ req'.client = c
         /\ Request(c, req'.request)
         /\ InWindow(admitted[c], now) >= RATE_LIMIT_REQUESTS)
        => (resp'.code = 429 /\ invoked' = {} /\ admitted' = admitted)

\* C2: for every client and every time T at most 15 requests are passed on to
\* predict with a timestamp in (T - 60, T]; a request that arrives while 15
\* passed-on timestamps are less than 60 seconds old is answered 429 and
\* predict is not called.
C2_AtMost15PerWindow == []C2_Window /\ [][C2_Reject]_vars

\* a client is turned away in a later window, after more than 15 of its
\* requests were passed on in all
C2_Witness ==
    \E c \in Clients :
        /\ req # NoReq /\ req.client = c /\ resp.code = 429 /\ invoked = {}
        /\ Len(admitted[c]) > RATE_LIMIT_REQUESTS
        /\ InWindow(admitted[c], now) = RATE_LIMIT_REQUESTS

-----------------------------------------------------------------------------
(* Properties under concurrency *)

\* C3: with requests of one client handled by concurrent threads, the number
\* of its requests passed on to predict within any 60-second window still
\* never exceeds 15.
C3_ConcurrentAtMost15 ==
    \A T \in 0..MaxTime : InWindow(admitted[TheClient], T) <= RATE_LIMIT_REQUESTS

\* C10: at every moment the file at the final path is absent or a complete
\* artifact, so a loader never finds a partially written one.
C10_ArtifactNeverPartial == disk.exists => Complete(disk)

\* C11: the pipeline file and the metadata file are persisted together: in
\* every state of a training run, an interrupted one included, the metadata
\* file on disk was written by the run that wrote the pipeline file on disk.
C11_MetadataDescribesPipeline ==
    (disk.exists /\ metafile.exists) => metafile.run = disk.run

-----------------------------------------------------------------------------
(* Properties of the data preparation *)

Recognized(label) == label \in {"ham", "spam"}
Read == datapc # "start"                                   \* spam.csv has been read
Deduplicated == datapc \in {"line47", "line52", "ValueError"}
SplitMade == datapc = "line52"

\* C12: a row of spam.csv whose label is neither 'ham' nor 'spam' makes the
\* loader fail when the file is read, with an unrecognized-label error; no row
\* carrying an undefined target reaches deduplication, split or fit.
C12_UnknownLabelFailsLoad ==
    (Read /\ \E i \in DOMAIN csv : ~Recognized(csv[i].label))
    => (/\ datapc = "MalformedRow"
        /\ \A i \in DOMAIN df : df[i].target \in {0, 1})

\* the rows above row i of the frame that carry its message
Earlier(frame, i) == {j \in 1..(i - 1) : frame[j].message = frame[i].message}
FirstOccurrences(frame) == {i \in DOMAIN frame : Earlier(frame, i) = {}}

\* C13: deduplication yields the rows of first occurrence of each distinct
\* message text, in their original order: every distinct text exactly once,
\* the kept row the earliest one carrying it; deduplicating again changes
\* nothing.
C13_DedupKeepsFirstOccurrences ==
    Deduplicated =>
        /\ \A k \in DOMAIN df_unique : df_unique[k] = df[df_unique[k].row]
        /\ \A k \in 1..(Len(df_unique) - 1) : df_unique[k].row < df_unique[k + 1].row
        /\ {df_unique[k].row : k \in DOMAIN df_unique} = FirstOccurrences(df)
        /\ \A t \in {df[i].message : i \in DOMAIN df} :
               Cardinality({k \in DOMAIN df_unique : df_unique[k].message = t}) = 1
        /\ DropDuplicates(df_unique) = df_unique

\* a message occurs three times, under both labels, with another message in
\* between, and a later message is kept after the dropped rows
C13_Witness ==
    /\ Deduplicated
    /\ \E i, j, k \in DOMAIN df :
          /\ i + 1 < j /\ j < k
          /\ df[i].message = df[j].message /\ df[j].message = df[k].message
          /\ df[i].target # df[j].target
    /\ \E k \in DOMAIN df_unique : k > 1 /\ df_unique[k].row > k

Rows(part) == {part[k].row : k \in DOMAIN part}
MessagesOf(part) == {part[k].message : k \in DOMAIN part}

\* C14: in the training path every deduplicated record is in exactly one of
\* Train and Test, no message text is in both, and running the script again
\* on the same data yields the same partition.
C14_SplitPartitionsUniqueMessages ==
    SplitMade =>
        /\ Rows(X_train) \cup Rows(X_test) = Rows(df_unique)
        /\ Rows(X_train) \cap Rows(X_test) = {}
        /\ Len(X_train) + Len(X_test) = Len(df_unique)
        /\ \A k \in DOMAIN X_train : X_train[k] = df[X_train[k].row]
        /\ \A k \in DOMAIN X_test : X_test[k] = df[X_test[k].row]
        /\ MessagesOf(X_train) \cap MessagesOf(X_test) = {}
        /\ first_split.made => (X_train = first_split.train /\ X_test = first_split.test)

\* the second run has split a file that repeats a message, the repeated
\* message has landed in the test part
C14_Witness ==
    /\ SplitMade /\ first_split.made
    /\ Len(df_unique) < Len(df)
    /\ \E k \in DOMAIN X_test : \E i \in DOMAIN df :
          i # X_test[k].row /\ df[i].message = X_test[k].message
    /\ X_train # <<>>

-----------------------------------------------------------------------------
(* Properties of the evaluation scripts *)

\* the denominator of each derived rate
Denominator(name) ==
    CASE name = "specificity" -> cm.tn + cm.fp
      [] name = "sensitivity" -> cm.tp + cm.fn
      [] name = "fp_rate" -> cm.fp + cm.tn
      [] name = "precision" -> cm.tp + cm.fp
      [] name = "recall" -> cm.tp + cm.fn
      [] name = "f1_score" -> 2 * cm.tp + cm.fp + cm.fn

\* C15: every derived rate evaluates to the sentinel 0 when its denominator is
\* 0, and otherwise to a number; no rate computation raises or yields an
\* undefined value.
C15_ZeroDenominatorYieldsZero ==
    (rates.script \in {"model_evaluation", "train_optimized"} /\ ~rates.raised)
    => \A name \in DOMAIN rates.of :
          /\ rates.of[name].kind = "value"
          /\ Denominator(name) = 0 => rates.of[name] = Zero

\* x <= y for two numbers num/den
Leq(x, y) == x.num * y.den <= y.num * x.den
Less(x, y) == x.num * y.den < y.num * x.den

\* C16: over the thresholds 0.3, 0.5, 0.7, 0.9, taken in increasing order, the
\* recall of the prediction p_spam >= threshold never increases.
C16_RecallNonIncreasing ==
    \A k \in 1..(Len(sweep) - 1) : Leq(sweep[k + 1].rec, sweep[k].rec)

\* the sweep is complete and recall fell twice, down to 0
C16_Witness ==
    /\ Len(sweep) = Len(Thresholds)
    /\ Less(sweep[2].rec, sweep[1].rec)
    /\ Less(sweep[3].rec, sweep[2].rec)
    /\ sweep[4].rec.num = 0

\* C17 as stated: over the same thresholds the precision, 0 when nothing is
\* predicted spam, never decreases.
C17_PrecisionNonDecreasing ==
    \A k \in 1..(Len(sweep) - 1) : Leq(sweep[k].prec, sweep[k + 1].prec)

\* C17 as amended: raising the threshold never adds a true or a false
\* positive, and precision does not decrease from one threshold to the next
\* when no true positive is lost between them.
C17_PrecisionWhileNoSpamLost ==
    \A k \in 1..(Len(sweep) - 1) :
        /\ sweep[k + 1].tp <= sweep[k].tp
        /\ sweep[k + 1].fp <= sweep[k].fp
        /\ sweep[k + 1].tp = sweep[k].tp => Leq(sweep[k].prec, sweep[k + 1].prec)

\* precision rose while the true positives stayed, then fell when they went
C17_Witness ==
    /\ Len(sweep) = Len(Thresholds)
    /\ sweep[1].tp = sweep[2].tp /\ Less(sweep[1].prec, sweep[2].prec)
    /\ sweep[3].tp < sweep[2].tp /\ Less(sweep[3].prec, sweep[2].prec)

-----------------------------------------------------------------------------
(* Properties of the export *)

Returned == xpc = "idle" /\ xret # "none"
NewFile == FileOf(NewExport, ArtifactChunks)

\* C20: once export_model has returned, vectorizer.pkl and model.pkl of the
\* output directory are both the new objects and it returned True, or both
\* as they were before the call and it returned False.
C20_ExportIsOneUnit ==
    Returned =>
        \/ /\ xret = "True"
           /\ lfiles.root_vectorizer = NewFile
           /\ lfiles.root_model = NewFile
        \/ /\ xret = "False"
           /\ lfiles.root_vectorizer = xbefore.root_vectorizer
           /\ lfiles.root_model = xbefore.root_model

-----------------------------------------------------------------------------
(* Properties of the legacy loader *)

\* the global g holds what the complete file f unpickles to
LoadedFrom(f, g) == Complete(f) /\ g = PickleLoad(f).value

\* C21: load_model of the legacy endpoint leaves in the globals a vectorizer
\* and a model read from the same directory, both from models/ or both from
\* the working directory, and never a vectorizer without a model.
C21_PairFromOneDirectory ==
    (Legacy /\ proc # "init") =>
        /\ (vectorizer # None /\ lmodel # None) =>
              \/ /\ LoadedFrom(lfiles.models_vectorizer, vectorizer)
                 /\ LoadedFrom(lfiles.models_model, lmodel)
              \/ /\ LoadedFrom(lfiles.root_vectorizer, vectorizer)
                 /\ LoadedFrom(lfiles.root_model, lmodel)
        /\ ~(vectorizer # None /\ lmodel = None)

-----------------------------------------------------------------------------
(* Properties of the rows of the threshold sweep *)

\* x = y for two numbers num/den
Same(x, y) == x.num * y.den = y.num * x.den

\* C22: every row of the sweep, the one of threshold 0.5 included, reports as
\* false-positive rate the legitimate test messages with p_spam >= the row's
\* threshold over the legitimate test messages, the predictions its precision,
\* recall and F1 are computed from.
C22_RowRatesFromRowPredictions ==
    Labelled(y_test, 0) > 0 =>
        \A k \in DOMAIN sweep :
            /\ sweep[k].fp = Marked(y_test, 0, sweep[k].thresh)
            /\ sweep[k].fp_rate.kind = "value"
            /\ Same(sweep[k].fp_rate, Frac(sweep[k].fp, Labelled(y_test, 0)))

-----------------------------------------------------------------------------
(* Properties of the lists of request_counts, requests handled one at a time *)

NonDecreasing(list) == \A i, j \in DOMAIN list : i <= j => list[i] <= list[j]

\* every list of request_counts holds at most 15 timestamps
C23_Lists ==
    \A c \in DOMAIN request_counts : Len(request_counts[c]) <= RATE_LIMIT_REQUESTS

\* the list of the client whose request has just been handled
C23_AfterRequest ==
    \A c \in Clients :
        (req'.client = c /\ Request(c, req'.request))
        => /\ \A i \in DOMAIN request_counts'[c] : now - request_counts'[c][i] < RATE_LIMIT_PERIOD
           /\ NonDecreasing(request_counts'[c])
           /\ Len(request_counts'[c]) <= RATE_LIMIT_REQUESTS

\* C23: after every request of a client its list holds only timestamps less
\* than 60 seconds old, in non-decreasing order, at most 15 of them; in every
\* state every client's list holds at most 15 timestamps.
C23_ListPrunedOrderedBounded == []C23_Lists /\ [][C23_AfterRequest]_vars

\* a passed request has left a full list from which older timestamps were
\* pruned, its own timestamp last
C23_Witness ==
    \E c \in DOMAIN request_counts :
        /\ req # NoReq /\ req.client = c /\ resp.code # 429
        /\ Len(request_counts[c]) = RATE_LIMIT_REQUESTS
        /\ Len(admitted[c]) > Len(request_counts[c])
        /\ request_counts[c][1] < now
        /\ request_counts[c][Len(request_counts[c])] = now

-----------------------------------------------------------------------------
(* Properties of one request's effect on request_counts *)

\* the list of client c, empty while c has none
ListOf(rc, c) == IF c \in DOMAIN rc THEN rc[c] ELSE <<>>

\* the step handles a request of client c
RequestOf(c) == req'.client = c /\ Request(c, req'.request)

C24_Frame ==
    \A c \in Clients \cup Neighbours :
        RequestOf(c) =>
            LET old == Pruned(ListOf(request_counts, c), now)
                passed == "predict" \in invoked'
            IN  /\ passed <=> resp'.code # 429
                /\ passed => resp'.code \in {200, 400, 500}
                /\ passed => request_counts'[c] = Append(old, now)
                /\ ~passed => request_counts'[c] = old
                /\ ~passed => Len(request_counts'[c]) = Len(ListOf(request_counts, c))
                /\ \A d \in (Clients \cup Neighbours) \ {c} :
                      /\ d \in DOMAIN request_counts' <=> d \in DOMAIN request_counts
                      /\ ListOf(request_counts', d) = ListOf(request_counts, d)

\* C24: a request adds exactly one timestamp to its client's list if and only
\* if it passes the limiter, whatever predict then answers; a request answered
\* 429 adds none; no request changes the list of another client.
C24_OneTimestampPerPassedRequest == [][C24_Frame]_vars

\* a client has just been turned away in a later window while the other
\* client's list, written earlier and not pruned since, is still there
C24_Witness ==
    \E c \in Clients, d \in Neighbours :
        /\ req # NoReq /\ req.client = c /\ resp.code = 429
        /\ Len(request_counts[c]) = RATE_LIMIT_REQUESTS
        /\ Len(admitted[c]) > RATE_LIMIT_REQUESTS
        /\ d \in DOMAIN request_counts /\ request_counts[d] # <<>>
        /\ now - request_counts[d][1] >= RATE_LIMIT_PERIOD

-----------------------------------------------------------------------------
(* Re-admission of a rate-limited client *)

\* client c has just been turned away, and the clock of the model still
\* reaches the end of the period of its oldest recorded request
TurnedAway(c) ==
    /\ req # NoReq /\ req.client = c /\ resp.code = 429
    /\ request_counts[c][1] + RATE_LIMIT_PERIOD + TickStep <= MaxTime

\* the last request of client c passed the limiter
PassedAgain(c) == req # NoReq /\ req.client = c /\ "predict" \in invoked

\* a request arriving 60 seconds or more after the oldest recorded one passes
C25_PassesAfterPeriod ==
    \A c \in Clients :
        (/\ RequestOf(c)
         /\ c \in DOMAIN request_counts
         /\ Len(request_counts[c]) = RATE_LIMIT_REQUESTS
         /\ now - request_counts[c][1] >= RATE_LIMIT_PERIOD)
        => /\ resp'.code # 429
           /\ "predict" \in invoked'
           /\ admitted'[c] = Append(admitted[c], now)

\* C25: a rate-limited client that keeps sending requests is eventually
\* admitted again: its rejected requests are not recorded, so a request
\* arriving 60 seconds or more after the oldest of its 15 recorded requests
\* passes the limiter.
C25_EventuallyAdmittedAgain ==
    /\ [][C25_PassesAfterPeriod]_vars
    /\ \A c \in Clients : TurnedAway(c) ~> PassedAgain(c)

\* a client used up its 15 requests, and a period after the last of them a
\* further request of it has passed, the old timestamps pruned
C25_Witness ==
    \E c \in Clients :
        /\ PassedAgain(c)
        /\ Len(admitted[c]) = RATE_LIMIT_REQUESTS + 1
        /\ admitted[c][RATE_LIMIT_REQUESTS] + RATE_LIMIT_PERIOD <= now
        /\ request_counts[c] = <<now>>

-----------------------------------------------------------------------------
(* The list of one client under concurrent requests *)

\* how often the timestamp ts occurs in a list
Occurrences(list, ts) == Cardinality({i \in DOMAIN list : list[i] = ts})

\* how many requests have appended the timestamp ts at line 104: those passed
\* on to predict and those about to be
AppendedAt(ts) ==
    Occurrences(admitted[TheClient], ts)
    + Cardinality({t \in Threads : pc[t] = "line105" /\ stamp[t] = ts})

\* C26: under concurrent handling of one client's requests, the timestamp
\* appended for an admitted request stays in request_counts[client] until it
\* is at least 60 seconds old.
C26_NoAdmittedRequestForgotten ==
    \A ts \in 0..MaxTime :
        (AppendedAt(ts) > 0 /\ now - ts < RATE_LIMIT_PERIOD)
        => /\ TheClient \in DOMAIN request_counts
           /\ Occurrences(request_counts[TheClient], ts) >= AppendedAt(ts)

-----------------------------------------------------------------------------
(* Properties of train_optimized.py *)

\* models/model.pkl or models/vectorizer.pkl cannot be loaded
OriginalsMissing ==
    PickleLoad(lfiles.models_model).raised \/ PickleLoad(lfiles.models_vectorizer).raised

\* C27: when the original model files cannot be loaded, train_optimized.py
\* reports that the comparison was skipped and runs to completion: the
\* feature-importance, recommendations and closing sections execute without
\* raising, and the saved artifacts are those of this run.
C27_RunsToCompletionWithoutOriginals ==
    (OriginalsMissing /\ optpc \in {"line205", "line229", "line257", "done", "failed"}) =>
        /\ "Note: Could not load original model for comparison" \in printed
        /\ disk = ThisRun /\ model_v2 = ThisRun /\ metafile = ThisRun
        /\ optpc # "failed" /\ optexc = NoExc
        /\ optpc \in {"line229", "line257", "done"} => "features" \in printed
        /\ optpc \in {"line257", "done"} => "recommendations" \in printed
        /\ optpc = "done" => "MODEL v2 READY FOR PRODUCTION" \in printed

====
